---- MODULE Spec2Model ----
(***************************************************************************)
(* Model of src/main.py: a FastAPI application whose constructor registers *)
(* the four documentation routes and whose decorators register fourteen    *)
(* more, over one shared list, fake_items_db.                              *)
(*                                                                         *)
(* Text that arrives in a request (path segments, query values, JSON       *)
(* strings) is a sequence of one-character strings, so that lengths, the   *)
(* number conversions, the bool coercion and the enum lookup are computed. *)
(* Python values are tagged records: [t |-> "str", v |-> <<"a","b">>],     *)
(* [t |-> "text", v |-> "literal of the code"], [t |-> "bool", v |-> TRUE],*)
(* [t |-> "none"], [t |-> "list", v |-> <<...>>], [t |-> "dict", v |-> f]. *)
(* A natural number of any size is the sequence of its decimal digits,     *)
(* most significant first, <<>> for 0.  An int is a sign and such a        *)
(* number.  A float is an IEEE 754 double: an infinity, NaN, or a finite   *)
(* value named by its sign and the digits and scale of its shortest        *)
(* decimal text (digits / 10^scale, the text repr() prints); sums are      *)
(* computed on the binary values and rounded to nearest, ties to even.     *)
(* Conversions follow pydantic 2 in its default (lax) mode.                *)
(***************************************************************************)
EXTENDS Integers, Sequences, FiniteSets, TLC

VARIABLES request, handler, response, fake_items_db

vars == <<request, handler, response, fake_items_db>>

(***************************************************************************)
(* Bounds of the inputs.                                                   *)
(***************************************************************************)
MaxId == 3
MaxPrice == 2
MaxTax == 1
MaxImportance == 1
MaxQLen == 4

(***************************************************************************)
(* Natural numbers of any size, as sequences of decimal digits.            *)
(***************************************************************************)
Zeros(n) == IF n <= 0 THEN <<>> ELSE [i \in 1..n |-> 0]

Front(s) == SubSeq(s, 1, Len(s) - 1)

Last(s) == s[Len(s)]

Min(a, b) == IF a < b THEN a ELSE b

\* d without its leading zeros.
StripZeros(d) ==
  IF \A i \in 1..Len(d) : d[i] = 0 THEN <<>>
  ELSE SubSeq(d, CHOOSE i \in 1..Len(d) : d[i] # 0 /\ \A j \in 1..(i - 1) : d[j] = 0, Len(d))

\* d without its trailing zeros.
StripTrailingZeros(d) ==
  IF \A i \in 1..Len(d) : d[i] = 0 THEN <<>>
  ELSE SubSeq(d, 1, CHOOSE i \in 1..Len(d) : d[i] # 0 /\ \A j \in (i + 1)..Len(d) : d[j] = 0)

\* The digits of a small number, and the small number of the digits.
RECURSIVE NatDigits(_)
NatDigits(n) == IF n = 0 THEN <<>> ELSE Append(NatDigits(n \div 10), n % 10)

RECURSIVE NatValue(_)
NatValue(d) == IF d = <<>> THEN 0 ELSE 10 * NatValue(Front(d)) + Last(d)

NatLess(a, b) ==
  \/ Len(a) < Len(b)
  \/ /\ Len(a) = Len(b)
     /\ \E i \in 1..Len(a) : a[i] < b[i] /\ \A j \in 1..(i - 1) : a[j] = b[j]

NatOdd(a) == a # <<>> /\ Last(a) % 2 = 1

\* Digit i of a, 0 outside a.
Dig(a, i) == IF i >= 1 /\ i <= Len(a) THEN a[i] ELSE 0

\* Digit i of a written with n digits.
At(a, i, n) == Dig(a, i - (n - Len(a)))

\* a + b carries into digit i: a later digit pair overflows and every pair
\* between sums to 9.
CarryInto(a, b, i, n) ==
  \E j \in (i + 1)..n :
    /\ At(a, j, n) + At(b, j, n) >= 10
    /\ \A k \in (i + 1)..(j - 1) : At(a, k, n) + At(b, k, n) = 9

AddDigit(a, b, i, n) ==
  (At(a, i, n) + At(b, i, n) + (IF CarryInto(a, b, i, n) THEN 1 ELSE 0)) % 10

AddWide(a, b, n) == StripZeros(<<>> \o [i \in 1..(n + 1) |-> AddDigit(a, b, i - 1, n)])

NatAdd(a, b) == AddWide(a, b, IF Len(a) > Len(b) THEN Len(a) ELSE Len(b))

\* a - b borrows from digit i (b is not above a).
BorrowInto(a, b, i, n) ==
  \E j \in (i + 1)..n :
    /\ a[j] < At(b, j, n)
    /\ \A k \in (i + 1)..(j - 1) : a[k] = At(b, k, n)

SubDigit(a, b, i, n) ==
  (10 + a[i] - At(b, i, n) - (IF BorrowInto(a, b, i, n) THEN 1 ELSE 0)) % 10

NatSub(a, b) == StripZeros(<<>> \o [i \in 1..Len(a) |-> SubDigit(a, b, i, Len(a))])

\* 2 * a: a digit doubles and takes a carry when the next one is 5 or more.
DoubleDigit(a, i) == ((2 * Dig(a, i)) % 10) + (IF Dig(a, i + 1) >= 5 THEN 1 ELSE 0)

Double(a) == StripZeros(<<>> \o [i \in 1..(Len(a) + 1) |-> DoubleDigit(a, i - 1)])

\* 5 * a is half of 10 * a: a digit halves and takes 5 when the one before
\* is odd.
HalfDigit(a, i) == (Dig(a, i) + 10 * (Dig(a, i - 1) % 2)) \div 2

Times5Once(a) == StripZeros(<<>> \o [i \in 1..(Len(a) + 1) |-> HalfDigit(a, i)])

\* a * 2^k and a * 5^k.
RECURSIVE Times2(_, _)
Times2(a, k) ==
  IF k <= 0 \/ a = <<>> THEN a
  ELSE IF k = 1 THEN Double(a)
  ELSE Times2(Times2(a, k \div 2), k - k \div 2)

RECURSIVE Times5(_, _)
Times5(a, k) ==
  IF k <= 0 \/ a = <<>> THEN a
  ELSE IF k = 1 THEN Times5Once(a)
  ELSE Times5(Times5(a, k \div 2), k - k \div 2)

(***************************************************************************)
(* IEEE 754 doubles, the floats of Python.  A binary value is m * 2^e with *)
(* m below 2^53, m at least 2^52 unless e = EMin, or an infinity.          *)
(***************************************************************************)
EMin == -1074
EMax == 971
P52 == Times2(<<1>>, 52)
P53 == Times2(<<1>>, 53)
P63 == Times2(<<1>>, 63)

\* The decimal T / 10^t: the digits before and after its point.
IntPart(T, t) ==
  IF t <= 0 THEN T \o Zeros(0 - t)
  ELSE IF Len(T) > t THEN SubSeq(T, 1, Len(T) - t)
  ELSE <<>>

FracPart(T, t) ==
  IF t <= 0 THEN <<>>
  ELSE IF Len(T) >= t THEN SubSeq(T, Len(T) - t + 1, Len(T))
  ELSE Zeros(t - Len(T)) \o T

\* The value v > 0 as (T / 10^t) * 2^e with the integer part of T / 10^t
\* in 2^52 .. 2^53 - 1, or below 2^52 with e = EMin.  A doubling multiplies
\* T by 2, a halving multiplies T by 5 and moves the point.
RECURSIVE Scale(_, _, _)
RECURSIVE ScaleBy(_, _, _, _)

ScaleUp(T, t, e, k) == Scale(Times2(T, k), t, e - k)

ScaleDown(T, t, e, k) == Scale(Times5(T, k), t + k, e + k)

ScaleBy(T, t, e, n) ==
  IF n <= 15
  THEN (IF e <= EMin THEN [T |-> T, t |-> t, e |-> e]
        ELSE ScaleUp(T, t, e, Min(3 * (16 - n), e - EMin)))
  ELSE IF n >= 18 THEN ScaleDown(T, t, e, 3 * (n - 17))
  ELSE IF n = 17 \/ ~NatLess(IntPart(T, t), P53) THEN ScaleDown(T, t, e, 1)
  ELSE IF NatLess(IntPart(T, t), P52) /\ e > EMin THEN ScaleUp(T, t, e, 1)
  ELSE [T |-> T, t |-> t, e |-> e]

Scale(T, t, e) == ScaleBy(T, t, e, Len(T) - t)

BinaryInf == [inf |-> TRUE, m |-> <<>>, e |-> 0]

BinaryZero == [inf |-> FALSE, m |-> <<>>, e |-> 0]

\* The binary value of the rounded significand M: a carry out of 53 bits
\* moves to the next exponent, an exponent above EMax overflows.
Binary(M, e) ==
  IF M = <<>> THEN BinaryZero
  ELSE IF M = P53 THEN (IF e + 1 > EMax THEN BinaryInf ELSE [inf |-> FALSE, m |-> P52, e |-> e + 1])
  ELSE IF e > EMax THEN BinaryInf
  ELSE [inf |-> FALSE, m |-> M, e |-> e]

\* Round to nearest, ties to even: the fraction F is above a half, or is a
\* half and M is odd.
RoundsUp(M, F) ==
  /\ F # <<>>
  /\ \/ F[1] > 5
     \/ F[1] = 5 /\ (NatOdd(M) \/ \E i \in 2..Len(F) : F[i] # 0)

RoundNearest(M, F, e) == IF RoundsUp(M, F) THEN Binary(NatAdd(M, <<1>>), e) ELSE Binary(M, e)

Rounded(s) == RoundNearest(IntPart(s.T, s.t), FracPart(s.T, s.t), s.e)

\* The double nearest to N * 2^e.
RoundBinary(N, e) == IF N = <<>> THEN BinaryZero ELSE Rounded(Scale(N, 0, e))

\* The double nearest to N / 10^s.
BinaryOf(N, s) ==
  IF N = <<>> THEN BinaryZero
  ELSE IF Len(N) - s > 310 THEN BinaryInf
  ELSE IF Len(N) - s < -330 THEN BinaryZero
  ELSE Rounded(Scale(N, s, 0))

\* digits / 10^scale without trailing zeros.
Canonical(digits, scale) ==
  IF StripTrailingZeros(digits) = <<>> THEN [digits |-> <<>>, scale |-> 0]
  ELSE [digits |-> StripTrailingZeros(digits),
        scale |-> scale - (Len(digits) - Len(StripTrailingZeros(digits)))]

\* c lies inside the rounding interval lo .. hi of a double (its ends
\* included when the significand is even).
Above(c, lo, incl) == NatLess(lo, c) \/ (incl /\ c = lo)

Below(c, hi, incl) == NatLess(c, hi) \/ (incl /\ c = hi)

\* d cut to its first n digits, and the next number of n digits above it.
CutDown(d, n) == SubSeq(d, 1, n) \o Zeros(Len(d) - n)

CutUp(d, n) == NatAdd(SubSeq(d, 1, n), <<1>>) \o Zeros(Len(d) - n)

\* Some number of n digits rounds to the double.
Fits(d, lo, hi, incl, n) ==
  n >= Len(d) \/ Above(CutDown(d, n), lo, incl) \/ Below(CutUp(d, n), hi, incl)

Nearer(d, down, up, digit) ==
  IF NatLess(NatSub(d, down), NatSub(up, d)) THEN down
  ELSE IF NatLess(NatSub(up, d), NatSub(d, down)) THEN up
  ELSE IF digit % 2 = 0 THEN down ELSE up

Cut(d, lo, hi, incl, n) ==
  IF n >= Len(d) THEN d
  ELSE IF ~Above(CutDown(d, n), lo, incl) THEN CutUp(d, n)
  ELSE IF ~Below(CutUp(d, n), hi, incl) THEN CutDown(d, n)
  ELSE Nearer(d, CutDown(d, n), CutUp(d, n), d[n])

\* The number of fewest digits that rounds to the double of exact value d,
\* the nearest to d when there are several: what repr() prints.
Shortest(d, lo, hi, incl) ==
  Cut(d, lo, hi, incl,
      CHOOSE n \in 1..Len(d) :
        Fits(d, lo, hi, incl, n) /\ \A m \in 1..(n - 1) : ~Fits(d, lo, hi, incl, m))

\* Half the distance to the next double above and below b, in units of
\* 10^-(ExactScale(b) + 2).
HalfUlpUp(b) == IF b.e >= 0 THEN Times2(<<5, 0>>, b.e) ELSE Times5(<<2>>, 2 - b.e)

HalfUlpDown(b) ==
  IF b.m = P52 /\ b.e > EMin
  THEN (IF b.e >= 0 THEN Times2(<<2, 5>>, b.e) ELSE Times5(<<1>>, 2 - b.e))
  ELSE HalfUlpUp(b)

\* The exact decimal value of b: ExactDigits(b) / 10^ExactScale(b).
ExactDigits(b) == IF b.e >= 0 THEN Times2(b.m, b.e) ELSE Times5(b.m, 0 - b.e)

ExactScale(b) == IF b.e >= 0 THEN 0 ELSE 0 - b.e

ReprIn(d, down, up, incl, scale) ==
  Canonical(Shortest(d, NatSub(d, down), NatAdd(d, up), incl), scale)

\* The shortest decimal of the finite non-zero double b.
Repr(b) ==
  ReprIn(ExactDigits(b) \o <<0, 0>>, HalfUlpDown(b), HalfUlpUp(b), ~NatOdd(b.m), ExactScale(b) + 2)

Finite(neg, c) ==
  [t |-> "float", kind |-> "finite", neg |-> neg, digits |-> c.digits, scale |-> c.scale]

Infinity(neg) == [t |-> "float", kind |-> "inf", neg |-> neg, digits |-> <<>>, scale |-> 0]

NaN == [t |-> "float", kind |-> "nan", neg |-> FALSE, digits |-> <<>>, scale |-> 0]

FloatOfBinary(neg, b) ==
  IF b.inf THEN Infinity(neg)
  ELSE IF b.m = <<>> THEN Finite(neg, Canonical(<<>>, 0))
  ELSE Finite(neg, Repr(b))

\* A decimal of at most 15 digits inside the normal range is the shortest
\* decimal of the double nearest to it (DBL_DIG = 15).
FloatOfCanonical(neg, c) ==
  IF c.digits = <<>> THEN Finite(neg, c)
  ELSE IF Len(c.digits) <= 15 /\ Len(c.digits) - c.scale \in (0 - 290)..290 THEN Finite(neg, c)
  ELSE FloatOfBinary(neg, BinaryOf(c.digits, c.scale))

\* The float nearest to the decimal N / 10^s.
FloatOfDecimal(neg, N, s) == FloatOfCanonical(neg, Canonical(StripZeros(N), s))

\* The float written digits / 10^scale, a decimal of at most 15 digits with
\* no zero at either end: it is its own shortest decimal (DBL_DIG = 15).
PyFloat(digits, scale) == Finite(FALSE, [digits |-> digits, scale |-> scale])

\* The sum of the signed whole numbers A and B: its sign and its size.
SignedSum(xneg, A, yneg, B) ==
  IF xneg = yneg THEN [neg |-> xneg, N |-> NatAdd(A, B)]
  ELSE IF A = B THEN [neg |-> FALSE, N |-> <<>>]
  ELSE IF NatLess(A, B) THEN [neg |-> yneg, N |-> NatSub(B, A)]
  ELSE [neg |-> xneg, N |-> NatSub(A, B)]

\* The float nearest to sum.N * 2^e.  An integer of at most 15 digits is a
\* double.
FloatOfSum(sum, e) ==
  IF e = 0 /\ Len(sum.N) <= 15 THEN Finite(sum.neg, Canonical(sum.N, 0))
  ELSE FloatOfBinary(sum.neg, RoundBinary(sum.N, e))

\* The doubles a and b as whole numbers A and B of their common unit 2^e.
Aligned(a, b) ==
  [A |-> Times2(a.m, a.e - Min(a.e, b.e)), B |-> Times2(b.m, b.e - Min(a.e, b.e)),
   e |-> Min(a.e, b.e)]

\* The finite float x is a whole number below 10^15: its digits are its
\* exact value.
SmallWhole(x) == x.scale <= 0 /\ Len(x.digits) - x.scale <= 15

\* The exact values of the finite floats x and y, as whole numbers of a
\* common unit.
Operands(x, y) ==
  IF SmallWhole(x) /\ SmallWhole(y)
  THEN [A |-> x.digits \o Zeros(0 - x.scale), B |-> y.digits \o Zeros(0 - y.scale), e |-> 0]
  ELSE Aligned(BinaryOf(x.digits, x.scale), BinaryOf(y.digits, y.scale))

\* The sum of the operands o with their signs, rounded to a double.
AddAligned(xneg, yneg, o) == FloatOfSum(SignedSum(xneg, o.A, yneg, o.B), o.e)

\* x + y of two floats.
FloatAdd(x, y) ==
  IF x.kind = "nan" \/ y.kind = "nan" THEN NaN
  ELSE IF x.kind = "inf" THEN (IF y.kind = "inf" /\ y.neg # x.neg THEN NaN ELSE x)
  ELSE IF y.kind = "inf" THEN y
  ELSE AddAligned(x.neg, y.neg, Operands(x, y))
(***************************************************************************)
(* Python values.                                                          *)
(***************************************************************************)
None == [t |-> "none"]
Ellipsis == [t |-> "ellipsis"]
PyStr(s) == [t |-> "str", v |-> s]
PyText(s) == [t |-> "text", v |-> s]
PyBool(b) == [t |-> "bool", v |-> b]
PyList(s) == [t |-> "list", v |-> s]
PyDict(f) == [t |-> "dict", v |-> f]

\* The int of a sign and digits; zero has no sign.
IntOf(neg, digits) ==
  [t |-> "int", neg |-> neg /\ StripZeros(digits) # <<>>, digits |-> StripZeros(digits)]

\* The int of a small number.
PyInt(n) == IntOf(n < 0, NatDigits(IF n < 0 THEN 0 - n ELSE n))

\* The small number of an int of at most 9 digits.
IntValue(x) == IF x.neg THEN 0 - NatValue(x.digits) ELSE NatValue(x.digits)

\* x > n for an int x and a small number n.
IntGreater(x, n) ==
  IF x.neg THEN n < 0 /\ NatLess(x.digits, NatDigits(0 - n))
  ELSE n < 0 \/ NatLess(NatDigits(n), x.digits)

\* bool is a subclass of int: True is 1 and False is 0.
IsNumber(x) == x.t \in {"int", "float", "bool"}

\* The int of the decimal c when it is whole, None when it is not.
WholeOfCanonical(neg, c) ==
  IF c.scale <= 0 THEN IntOf(neg, c.digits \o Zeros(0 - c.scale)) ELSE None

\* The int equal to the finite double b, None when b is not whole.
WholeOfBinary(neg, b) == WholeOfCanonical(neg, Canonical(ExactDigits(b), ExactScale(b)))

\* The int equal to the float x, None when x is not a finite whole number.
\* Below 10^15 the shortest decimal of a whole double is the number itself.
WholeOfFloat(x) ==
  IF x.kind # "finite" THEN None
  ELSE IF Len(x.digits) - x.scale <= 15
  THEN WholeOfCanonical(x.neg, [digits |-> x.digits, scale |-> x.scale])
  ELSE WholeOfBinary(x.neg, BinaryOf(x.digits, x.scale))

\* The int equal to the number x, None when there is none.
AsWhole(x) ==
  IF x.t = "bool" THEN PyInt(IF x.v THEN 1 ELSE 0)
  ELSE IF x.t = "int" THEN x
  ELSE WholeOfFloat(x)

\* Python's truth value of x, as tested by `if x:`.
Truthy(x) ==
  CASE x.t = "none" -> FALSE
    [] x.t = "bool" -> x.v
    [] x.t = "int" -> x.digits # <<>>
    [] x.t = "float" -> ~(x.kind = "finite" /\ x.digits = <<>>)
    [] x.t = "str" -> Len(x.v) > 0
    [] x.t = "list" -> Len(x.v) > 0
    [] x.t = "dict" -> DOMAIN x.v # {}
    [] OTHER -> TRUE

\* Python's x == y: values of unrelated types are never equal, numbers
\* compare by value, NaN equals nothing, 0.0 equals -0.0.
PyEq(x, y) ==
  IF IsNumber(x) /\ IsNumber(y)
  THEN (IF x.t = "float" /\ y.t = "float"
        THEN x.kind # "nan" /\ (x = y \/ (~Truthy(x) /\ ~Truthy(y)))
        ELSE AsWhole(x) # None /\ AsWhole(x) = AsWhole(y))
  ELSE IF x.t # y.t THEN FALSE
  ELSE IF x.t \in {"none", "ellipsis"} THEN TRUE
  ELSE x.v = y.v

\* Python's `x in lst` for a list: some element equals x.
PyIn(x, lst) == \E i \in 1..Len(lst) : PyEq(x, lst[i])

\* dict.update with one key.
DictUpdate(d, k, val) ==
  PyDict([key \in (DOMAIN d.v) \cup {k} |-> IF key = k THEN val ELSE d.v[key]])

(***************************************************************************)
(* Text and its conversions (pydantic-core's str_as_int, str_as_float and  *)
(* str_to_bool, over Rust's str::trim and str::parse).                     *)
(***************************************************************************)
Digits == <<"0", "1", "2", "3", "4", "5", "6", "7", "8", "9">>

IsDigit(c) == \E i \in 1..10 : Digits[i] = c

DigitValue(c) == (CHOOSE i \in 1..10 : Digits[i] = c) - 1

\* Every character of s is a digit.
AreDigits(s) == \A i \in 1..Len(s) : IsDigit(s[i])

AllDigits(s) == Len(s) > 0 /\ AreDigits(s)

\* The number of the digit characters s.
DigitsOfText(s) == <<>> \o [i \in 1..Len(s) |-> DigitValue(s[i])]

\* The white space that Rust's str::trim drops, which is the White_Space of
\* Unicode: the ASCII ones (the vertical tab among them), the next line
\* character U+0085, the no-break space U+00A0 and the spaces beyond.  A
\* character beyond U+00FF, which no string of TLA+ holds, is written as
\* the text of its code point.
Whitespace ==
  {" ", "\t", "\n", "\r", "\f", "", "", " ", "U+1680", "U+2000", "U+2001", "U+2002",
   "U+2003", "U+2004", "U+2005", "U+2006", "U+2007", "U+2008", "U+2009", "U+200A", "U+2028",
   "U+2029", "U+202F", "U+205F", "U+3000"}

\* s without its leading and trailing white space.
Trim(s) ==
  IF \A i \in 1..Len(s) : s[i] \in Whitespace THEN <<>>
  ELSE SubSeq(s,
              CHOOSE i \in 1..Len(s) :
                s[i] \notin Whitespace /\ \A j \in 1..(i - 1) : s[j] \in Whitespace,
              CHOOSE i \in 1..Len(s) :
                s[i] \notin Whitespace /\ \A j \in (i + 1)..Len(s) : s[j] \in Whitespace)

NotUnderscore(c) == c # "_"

\* The position of the first character of s that is in cs, 0 when none is.
FirstOf(s, cs) ==
  IF \E i \in 1..Len(s) : s[i] \in cs
  THEN CHOOSE i \in 1..Len(s) : s[i] \in cs /\ \A j \in 1..(i - 1) : s[j] \notin cs
  ELSE 0

\* The position of the first character of s that is not in cs, 0 when every
\* one is.
FirstNotOf(s, cs) ==
  IF \E i \in 1..Len(s) : s[i] \notin cs
  THEN CHOOSE i \in 1..Len(s) : s[i] \notin cs /\ \A j \in 1..(i - 1) : s[j] \in cs
  ELSE 0

\* A leading sign and the text after it.
Negative(s) == Len(s) > 0 /\ s[1] = "-"

Unsigned(s) == IF Len(s) > 0 /\ s[1] \in {"+", "-"} THEN Tail(s) ELSE s

\* The integer parse of text: an optional sign and digits.  None when s is
\* no such text.
IntOfText(s) ==
  IF AllDigits(Unsigned(s)) THEN IntOf(Negative(s), DigitsOfText(Unsigned(s))) ELSE None

\* x is an int of 64 bits: -2^63 <= x < 2^63.
FitsI64(x) == x # None /\ (NatLess(x.digits, P63) \/ (x.neg /\ x.digits = P63))

\* The steps that clean a text the 64-bit parse refused.  A text that
\* cannot be cleaned becomes <<>>, which no integer parse accepts.
\* A leading plus is dropped, unless a minus follows it.
StripPlus(s) ==
  IF Len(s) > 0 /\ s[1] = "+"
  THEN IF Len(s) > 1 /\ s[2] = "-" THEN <<>> ELSE Tail(s)
  ELSE s

\* A leading minus is set aside, unless another sign follows it.
StripMinus(s) ==
  IF Negative(s)
  THEN IF Len(s) > 1 /\ s[2] \in {"+", "-"} THEN <<>> ELSE Tail(s)
  ELSE s

\* s from the character that ends its leading zeros and underscores, which
\* is at position i + 1 (i = 0 for none, and then the last character is
\* left): a digit or a minus starts the number, a point keeps the character
\* before it.
AfterLeadingZeros(s, i) ==
  IF i = 0 THEN <<s[Len(s)]>>
  ELSE IF s[i + 1] = "." THEN SubSeq(s, i, Len(s))
  ELSE IF IsDigit(s[i + 1]) \/ s[i + 1] = "-" THEN SubSeq(s, i + 1, Len(s))
  ELSE <<>>

StripLeadingZeros(s) ==
  IF s = <<>> THEN <<>>
  ELSE IF IsDigit(s[1]) /\ s[1] # "0" THEN s
  ELSE IF s[1] # "0" THEN <<>>
  ELSE AfterLeadingZeros(s, FirstNotOf(Tail(s), {"0", "_"}))

\* A decimal point followed by zeros, and at least one, is dropped with them.
DecimalZerosAt(s, dot) ==
  IF dot > 0 /\ dot < Len(s) /\ \A i \in (dot + 1)..Len(s) : s[i] = "0"
  THEN SubSeq(s, 1, dot - 1)
  ELSE s

StripDecimalZeros(s) == DecimalZerosAt(s, FirstOf(s, {"."}))

\* Underscores may separate the characters of a number: at least one, not
\* at either end, and never two in a row.
UnderscoresValid(s) ==
  /\ \E i \in 1..Len(s) : s[i] = "_"
  /\ s[1] # "_" /\ s[Len(s)] # "_"
  /\ \A i \in 1..(Len(s) - 1) : ~(s[i] = "_" /\ s[i + 1] = "_")

StripUnderscores(s) == IF UnderscoresValid(s) THEN SelectSeq(s, NotUnderscore) ELSE s

CleanDigits(s) == StripUnderscores(StripDecimalZeros(StripLeadingZeros(s)))

\* The minus that was set aside is put back before the cleaned digits.
WithSign(neg, s) == IF neg /\ s # <<>> THEN <<"-">> \o s ELSE s

CleanInt(s) == WithSign(Negative(StripPlus(s)), CleanDigits(StripMinus(StripPlus(s))))

\* The cleaned text of an int has at most this many characters, its minus
\* included, unless the text is an int of 64 bits as it stands.
IntMaxStrDigits == 4300

\* The parse of a cleaned text, which takes no zero before another digit.
IntOfCleaned(s) ==
  IF Len(Unsigned(s)) > 1 /\ Unsigned(s)[1] = "0" THEN None ELSE IntOfText(s)

IntOfTrimmed(s) ==
  IF FitsI64(IntOfText(s)) THEN IntOfText(s)
  ELSE IF Len(CleanInt(s)) > IntMaxStrDigits THEN None
  ELSE IntOfCleaned(CleanInt(s))

\* The conversion of text to int: white space around it is dropped, a sign
\* may lead, leading zeros are dropped, underscores may separate the
\* digits, and a decimal point followed by zeros alone is dropped.  None
\* when s is no integer.
ParseInt(s) == IntOfTrimmed(Trim(s))

Lower(c) ==
  CASE c = "T" -> "t" [] c = "R" -> "r" [] c = "U" -> "u" [] c = "E" -> "e"
    [] c = "O" -> "o" [] c = "N" -> "n" [] c = "Y" -> "y" [] c = "S" -> "s"
    [] c = "F" -> "f" [] c = "A" -> "a" [] c = "L" -> "l" [] c = "I" -> "i"
    [] OTHER -> c

LowerText(s) == [i \in 1..Len(s) |-> Lower(s[i])]

\* What a float text or a JSON number denotes before any rounding: an
\* infinity, NaN, or the decimal digits / 10^scale.
Denotes(kind, neg, digits, scale) ==
  [kind |-> kind, neg |-> neg, digits |-> digits, scale |-> scale]

\* The decimal of the digits whole and frac around the point and the power
\* of ten e.
DecimalOfDigits(neg, whole, frac, e) ==
  IF Len(whole) + Len(frac) > 0 /\ AreDigits(whole) /\ AreDigits(frac)
  THEN Denotes("finite", neg, DigitsOfText(whole \o frac), Len(frac) - e)
  ELSE None

\* The decimal of a mantissa with its point at position dot (0 for none).
DecimalOfMantissa(neg, mant, dot, e) ==
  IF dot = 0 THEN DecimalOfDigits(neg, mant, <<>>, e)
  ELSE DecimalOfDigits(neg, SubSeq(mant, 1, dot - 1), SubSeq(mant, dot + 1, Len(mant)), e)

\* The value of the exponent digits; one of more than 5 digits is beyond
\* every double and stands as 100000.
ExponentOfDigits(neg, d) ==
  IF Len(d) > 5 THEN (IF neg THEN 0 - 100000 ELSE 100000)
  ELSE IF neg THEN 0 - NatValue(d) ELSE NatValue(d)

\* The decimal of a mantissa and a signed exponent text.
DecimalOfExponent(neg, mant, expo) ==
  IF AllDigits(Unsigned(expo))
  THEN DecimalOfMantissa(neg, mant, FirstOf(mant, {"."}),
                         ExponentOfDigits(Negative(expo),
                                          StripZeros(DigitsOfText(Unsigned(expo)))))
  ELSE None

\* What the text rest denotes, whose exponent mark is at position ex (0 for
\* none).
DecimalOfParts(neg, rest, ex) ==
  IF ex = 0 THEN DecimalOfMantissa(neg, rest, FirstOf(rest, {"."}), 0)
  ELSE DecimalOfExponent(neg, SubSeq(rest, 1, ex - 1), SubSeq(rest, ex + 1, Len(rest)))

\* What an unsigned text denotes: inf, infinity or nan in any case, or a
\* decimal number.
DenotedByUnsigned(neg, rest, lower) ==
  IF lower \in {<<"i", "n", "f">>, <<"i", "n", "f", "i", "n", "i", "t", "y">>}
  THEN Denotes("inf", neg, <<>>, 0)
  ELSE IF lower = <<"n", "a", "n">> THEN Denotes("nan", FALSE, <<>>, 0)
  ELSE DecimalOfParts(neg, rest, FirstOf(rest, {"e", "E"}))

\* What the text s denotes as a float.  None when s is no float.
DenotedBy(s) == DenotedByUnsigned(Negative(s), Unsigned(s), LowerText(Unsigned(s)))

\* The text that is parsed: s without the white space around it, or, when
\* that is no float, s as it stands (white space included) without its
\* underscores.
FloatText(s, plain) ==
  IF plain # None \/ ~UnderscoresValid(s) THEN Trim(s) ELSE SelectSeq(s, NotUnderscore)

\* The float a denoted value rounds to.
FloatOfDenoted(d) ==
  IF d = None THEN None
  ELSE IF d.kind = "inf" THEN Infinity(d.neg)
  ELSE IF d.kind = "nan" THEN NaN
  ELSE FloatOfDecimal(d.neg, d.digits, d.scale)

\* What the text s denotes once white space or underscores are dropped.
DenotedByText(s) == DenotedBy(FloatText(s, DenotedBy(Trim(s))))

\* The conversion of text to float: white space around it is dropped and
\* what is left is a sign and inf, infinity, nan or a decimal number with
\* an optional point and exponent; underscores may separate its characters.
\* None when s is no such text.
ParseFloat(s) == FloatOfDenoted(DenotedByText(s))

RECURSIVE DigitsOfNat(_)
DigitsOfNat(n) ==
  IF n < 10 THEN <<Digits[n + 1]>>
  ELSE Append(DigitsOfNat(n \div 10), Digits[(n % 10) + 1])

\* The decimal text of an integer, as a client writes it in a URL.
IntText(n) == IF n < 0 THEN <<"-">> \o DigitsOfNat(0 - n) ELSE DigitsOfNat(n)

BoolTrue == {<<"1">>, <<"o", "n">>, <<"t">>, <<"t", "r", "u", "e">>, <<"y">>, <<"y", "e", "s">>}
BoolFalse == {<<"0">>, <<"o", "f", "f">>, <<"f">>, <<"f", "a", "l", "s", "e">>, <<"n">>, <<"n", "o">>}

\* The bool conversion of a query value.  None when s is no boolean.
ParseBool(s) ==
  IF LowerText(s) \in BoolTrue THEN PyBool(TRUE)
  ELSE IF LowerText(s) \in BoolFalse THEN PyBool(FALSE)
  ELSE None

(***************************************************************************)
(* Data models.                                                            *)
(***************************************************************************)
ModelName == {<<"a", "l", "e", "x", "n", "e", "t">>, <<"r", "e", "s", "n", "e", "t">>,
              <<"l", "e", "n", "e", "t">>}

ModelName_alexnet == <<"a", "l", "e", "x", "n", "e", "t">>

ModelName_lenet == <<"l", "e", "n", "e", "t">>

fake_items_db_seed ==
  <<PyDict([item_id |-> PyInt(0), item_name |-> PyText("Fish")]),
    PyDict([item_id |-> PyInt(1), item_name |-> PyText("Bear")]),
    PyDict([item_id |-> PyInt(2), item_name |-> PyText("Bunny")])>>

\* Validation.  Each yields [ok, value, input]: the validated value, or the
\* input the validation error reports.
Valid(x) == [ok |-> TRUE, value |-> x, input |-> None]
Invalid(input) == [ok |-> FALSE, value |-> None, input |-> input]

HasKey(d, k) == d.t = "dict" /\ k \in DOMAIN d.v

\* A `str` field; a missing field reports the whole object.
StrField(d, k) ==
  IF ~HasKey(d, k) THEN Invalid(d)
  ELSE IF d.v[k].t = "str" THEN Valid(d.v[k])
  ELSE Invalid(d.v[k])

\* A `Union[str, None] = None` field.
OptStrField(d, k) ==
  IF ~HasKey(d, k) THEN Valid(None)
  ELSE IF d.v[k].t \in {"str", "none"} THEN Valid(d.v[k])
  ELSE Invalid(d.v[k])

\* The outcome of a conversion of input that yields None for no value.
Converted(x, input) == IF x = None THEN Invalid(input) ELSE Valid(x)

\* What the JSON value x denotes as a float: an int its value, a bool 1 or
\* 0, text what it spells.
DenotedByValue(x) ==
  IF x.t = "int" THEN Denotes("finite", x.neg, x.digits, 0)
  ELSE IF x.t = "bool" THEN Denotes("finite", FALSE, IF x.v THEN <<1>> ELSE <<>>, 0)
  ELSE DenotedByText(x.v)

\* The outcome of the conversion of input to the float f: text that is no
\* float, and an int beyond the doubles, are refused.
FloatOfInput(f, input) ==
  IF f = None THEN Invalid(input)
  ELSE IF input.t = "int" /\ f.kind = "inf" THEN Invalid(input)
  ELSE Valid(f)

\* Conversion of a JSON value to float: a float keeps its value (infinities
\* and NaN included), an int is rounded to a double, a bool is 1.0 or 0.0,
\* text is parsed.
ToFloat(x) ==
  IF x.t = "float" THEN Valid(x)
  ELSE IF x.t \in {"int", "bool", "str"} THEN FloatOfInput(FloatOfDenoted(DenotedByValue(x)), x)
  ELSE Invalid(x)

\* An int made of a float: the float must be whole and inside -2^63 .. 2^63.
IntOfFloat(w, input) ==
  IF w # None /\ NatLess(w.digits, P63) THEN Valid(w) ELSE Invalid(input)

\* Conversion of a JSON value to int: an int keeps its value, a bool is 1 or
\* 0, a float must be whole, text is parsed.
ToInt(x) ==
  IF x.t = "int" THEN Valid(x)
  ELSE IF x.t = "bool" THEN Valid(PyInt(IF x.v THEN 1 ELSE 0))
  ELSE IF x.t = "float" THEN IntOfFloat(WholeOfFloat(x), x)
  ELSE IF x.t = "str" THEN Converted(ParseInt(x.v), x)
  ELSE Invalid(x)

\* The constraint gt=bound on a converted int.
Gt(r, bound, input) == IF r.ok /\ ~IntGreater(r.value, bound) THEN Invalid(input) ELSE r

\* A `float` field.
FloatField(d, k) == IF ~HasKey(d, k) THEN Invalid(d) ELSE ToFloat(d.v[k])

\* A `Union[float, None] = None` field.
OptFloatField(d, k) ==
  IF ~HasKey(d, k) THEN Valid(None)
  ELSE IF d.v[k].t = "none" THEN Valid(None)
  ELSE ToFloat(d.v[k])

\* The model instance of the validated fields, or a validation failure that
\* reports the inputs of the invalid fields.
Model(class, fields) ==
  IF \A k \in DOMAIN fields : fields[k].ok
  THEN Valid([t |-> class, v |-> [k \in DOMAIN fields |-> fields[k].value]])
  ELSE Invalid(PyDict([k \in {f \in DOMAIN fields : ~fields[f].ok} |-> fields[k].input]))

\* Item(**body): the validated model instance, or a validation failure.
Item(body) ==
  IF body.t # "dict" THEN Invalid(body)
  ELSE Model("Item", [name |-> StrField(body, "name"),
                      description |-> OptStrField(body, "description"),
                      price |-> FloatField(body, "price"),
                      tax |-> OptFloatField(body, "tax")])

\* User(**body).
User(body) ==
  IF body.t # "dict" THEN Invalid(body)
  ELSE Model("User", [username |-> StrField(body, "username"),
                      full_name |-> OptStrField(body, "full_name")])

\* item.dict(): every field of the model, unset ones included, by name.
ModelDict(m) == PyDict([k \in DOMAIN m.v |-> m.v[k]])

\* jsonable_encoder: a model becomes the dict of its encoded fields, a list
\* or dict is encoded element by element, a scalar stays as it is.
RECURSIVE jsonable_encoder(_)
jsonable_encoder(x) ==
  CASE x.t \in {"Item", "User"} -> PyDict([k \in DOMAIN x.v |-> jsonable_encoder(x.v[k])])
    [] x.t = "dict" -> PyDict([k \in DOMAIN x.v |-> jsonable_encoder(x.v[k])])
    [] x.t = "list" -> PyList([i \in 1..Len(x.v) |-> jsonable_encoder(x.v[i])])
    [] OTHER -> x

\* The JSON rendering of x raises ValueError: x holds an infinity or NaN,
\* which json.dumps(allow_nan=False) refuses, or an Ellipsis, which cannot
\* be encoded.
RECURSIVE NotJson(_)
NotJson(x) ==
  CASE x.t = "float" -> x.kind # "finite"
    [] x.t = "ellipsis" -> TRUE
    [] x.t \in {"dict", "Item", "User"} -> \E k \in DOMAIN x.v : NotJson(x.v[k])
    [] x.t = "list" -> \E i \in 1..Len(x.v) : NotJson(x.v[i])
    [] OTHER -> FALSE

(***************************************************************************)
(* Responses.  error names how the request ended: "none" for a result,     *)
(* "ValidationError" (422), "NotFoundError" (the HTTPException of the      *)
(* lookup route), an exception class for an exception no handler catches   *)
(* (500), and from the router "NoRoute" (404), "MethodNotAllowed" (405) or *)
(* "Redirect" (307, to the path with or without its trailing slash).       *)
(***************************************************************************)
Unhandled(exc, db) ==
  [resp |-> [status |-> 500, body |-> PyText("Internal Server Error"), error |-> exc],
   db |-> db]

\* The response of an encoded body, which is rendered as JSON.
Rendered(status, body, db) ==
  IF NotJson(body) THEN Unhandled("ValueError", db)
  ELSE [resp |-> [status |-> status, body |-> body, error |-> "none"], db |-> db]

\* A handler's return value, encoded for the response body.
Return(status, value, db) == Rendered(status, jsonable_encoder(value), db)

\* The 422 answer to the failed validations among results; its body holds
\* their inputs and is rendered as JSON.
RequestValidationError(results, db) ==
  IF \E i \in 1..Len(results) : ~results[i].ok /\ NotJson(results[i].input)
  THEN Unhandled("ValueError", db)
  ELSE [resp |-> [status |-> 422, body |-> PyDict([detail |-> PyText("validation error")]),
                  error |-> "ValidationError"],
        db |-> db]

HTTPException(status, detail, db) ==
  [resp |-> [status |-> status, body |-> PyDict([detail |-> PyText(detail)]),
             error |-> "NotFoundError"],
   db |-> db]

\* lst[i] = val for a small index i.
ListSetAt(lst, i, val) ==
  IF i < 0 \/ i >= Len(lst) THEN [exc |-> "IndexError", list |-> lst]
  ELSE [exc |-> "none", list |-> [lst EXCEPT ![i + 1] = val]]

\* lst[key] = val on a Python list: the key must be an integer (negative
\* ones count from the end) inside the list; the list is untouched when the
\* assignment raises.
ListSetItem(lst, key, val) ==
  IF key.t # "int" THEN [exc |-> "TypeError", list |-> lst]
  ELSE IF Len(key.digits) > 9 THEN [exc |-> "IndexError", list |-> lst]
  ELSE ListSetAt(lst, IF key.neg THEN IntValue(key) + Len(lst) ELSE IntValue(key), val)

\* The value of a scalar query parameter: the last one given, or absent.
HasQuery(req, k) == k \in DOMAIN req.query /\ Len(req.query[k]) > 0
QueryValue(req, k) == req.query[k][Len(req.query[k])]

\* The text s of a query parameter against its length limits.
StrLimits(s, lo, hi) ==
  IF Len(s) < lo \/ (hi >= 0 /\ Len(s) > hi) THEN Invalid(PyStr(s)) ELSE Valid(PyStr(s))

\* A `Union[str, None]` query parameter with a default and length limits;
\* lo = 0 and hi = -1 stand for no limit.  An absent parameter takes the
\* default, which is validated as any value is: None passes, the Ellipsis
\* of line 207 is no str and fails.
StrQuery(req, k, default, lo, hi) ==
  IF HasQuery(req, k) THEN StrLimits(QueryValue(req, k), lo, hi)
  ELSE IF default = None THEN Valid(None)
  ELSE Invalid(default)

\* `short: bool = False`.
BoolQuery(req, k) ==
  IF ~HasQuery(req, k) THEN Valid(PyBool(FALSE))
  ELSE Converted(ParseBool(QueryValue(req, k)), PyStr(QueryValue(req, k)))

\* An `int` path parameter.
IntPath(params, k) == Converted(ParseInt(params[k]), PyStr(params[k]))

(***************************************************************************)
(* Program constants.                                                      *)
(***************************************************************************)
QueryMinLength == 3
QueryMaxLength == 50
ImportanceGt == 0
CreatedStatus == 201
NotFoundStatus == 404

(***************************************************************************)
(* The handlers, in the order of the source.  Each takes the request, the  *)
(* path parameters the router extracted and the store, validates its       *)
(* declared parameters, and yields the response and the store afterwards.  *)
(***************************************************************************)
FooBarItems ==
  PyDict([items |-> PyList(<<PyDict([item_id |-> PyText("Foo")]),
                             PyDict([item_id |-> PyText("Bar")])>>)])

ShortDescription ==
  PyText("short is boolean and accepts '?short=1', True, true, On, on, Yes, yes as True and short=0, False, false, Off, off, No, no as False")

\* The documentation routes FastAPI() sets up (line 92): the OpenAPI schema
\* and the pages that show it.
openapi(req, params, db) == Return(200, PyDict([openapi |-> PyText("3.1.0")]), db)

swagger_ui_html(req, params, db) ==
  [resp |-> [status |-> 200, body |-> PyText("Swagger UI"), error |-> "none"], db |-> db]

swagger_ui_redirect(req, params, db) ==
  [resp |-> [status |-> 200, body |-> PyText("Swagger UI: OAuth2 Redirect"), error |-> "none"],
   db |-> db]

redoc_html(req, params, db) ==
  [resp |-> [status |-> 200, body |-> PyText("ReDoc"), error |-> "none"], db |-> db]

\* GET /items/ (line 111)
read_items_L112(req, params, db) ==
  Return(200, PyList(<<PyDict([name |-> PyText("Katana")])>>), db)

\* create_items that also stores the created item.
create_items_stored(req, params, db) ==
  LET answer(item) ==
        IF ~item.ok THEN RequestValidationError(<<item>>, db)
        ELSE Return(CreatedStatus, ModelDict(item.value), Append(db, ModelDict(item.value)))
  IN answer(Item(req.body))

\* POST /items/ (line 115)
create_items(req, params, db) ==
  LET answer(item) ==
        IF ~item.ok THEN RequestValidationError(<<item>>, db)
        ELSE IF Truthy(item.value.v.tax)
        THEN Return(CreatedStatus,
                    DictUpdate(ModelDict(item.value), "price_with_tax",
                               FloatAdd(item.value.v.price, item.value.v.tax)),
                    db)
        ELSE Return(CreatedStatus, ModelDict(item.value), db)
  IN answer(Item(req.body))

\* POST /items/ (line 130), response_model=Item
create_an_item(req, params, db) ==
  LET answer(item) ==
        IF ~item.ok THEN RequestValidationError(<<item>>, db) ELSE Return(200, item.value, db)
  IN answer(Item(req.body))

\* POST /items_return_type/
create_item(req, params, db) ==
  LET answer(item) ==
        IF ~item.ok THEN RequestValidationError(<<item>>, db) ELSE Return(200, item.value, db)
  IN answer(Item(req.body))

\* GET /items_return_type/
read_items_L158(req, params, db) ==
  Return(200,
         PyList(<<[t |-> "Item",
                   v |-> [name |-> PyText("Portal Gun"), description |-> None,
                          price |-> PyFloat(<<4, 2>>, 0), tax |-> None]],
                  [t |-> "Item",
                   v |-> [name |-> PyText("Plumbus"), description |-> None,
                          price |-> PyFloat(<<3, 2>>, 0), tax |-> None]]>>),
         db)

\* The assignment fake_items_db[id] = data and the return of None.
SetItem(set) ==
  IF set.exc # "none" THEN Unhandled(set.exc, set.list) ELSE Return(200, None, set.list)

\* update_item_json with id declared int.
update_item_json_int_id(req, params, db) ==
  LET answer(id, item) ==
        IF ~(id.ok /\ item.ok) THEN RequestValidationError(<<id, item>>, db)
        ELSE SetItem(ListSetItem(db, id.value, jsonable_encoder(item.value)))
  IN answer(IntPath(params, "id"), Item(req.body))

\* PUT /items/{id}: id is declared str, so the path text is used as it is.
update_item_json(req, params, db) ==
  LET answer(id, item) ==
        IF ~item.ok THEN RequestValidationError(<<item>>, db)
        ELSE SetItem(ListSetItem(db, id, jsonable_encoder(item.value)))
  IN answer(PyStr(params["id"]), Item(req.body))

\* A body parameter that has its own key in the body.
Embedded(body, k) == IF HasKey(body, k) THEN body.v[k] ELSE None

\* PUT /items/{item_id}: three body parameters, each under its own key.
update_item(req, params, db) ==
  LET answer(item_id, item, user, importance, q) ==
        IF ~(item_id.ok /\ item.ok /\ user.ok /\ importance.ok /\ q.ok)
        THEN RequestValidationError(<<item_id, item, user, importance, q>>, db)
        ELSE IF Truthy(q.value)
        THEN Return(200,
                    PyDict([item_id |-> item_id.value, item |-> item.value, user |-> user.value,
                            importance |-> importance.value, q |-> q.value]),
                    db)
        ELSE Return(200,
                    PyDict([item_id |-> item_id.value, item |-> item.value, user |-> user.value,
                            importance |-> importance.value]),
                    db)
  IN answer(IntPath(params, "item_id"),
            IF HasKey(req.body, "item") THEN Item(Embedded(req.body, "item")) ELSE Invalid(None),
            IF HasKey(req.body, "user") THEN User(Embedded(req.body, "user")) ELSE Invalid(None),
            IF HasKey(req.body, "importance")
            THEN Gt(ToInt(Embedded(req.body, "importance")), ImportanceGt,
                    Embedded(req.body, "importance"))
            ELSE Invalid(None),
            StrQuery(req, "q", None, 0, -1))

\* GET /
root(req, params, db) == Return(200, PyDict([message |-> PyText("hello World")]), db)

\* GET /items/ (line 205): q of 3 to 50 characters, with the default `...`.
read_item_L206(req, params, db) ==
  LET answer(q) ==
        IF ~q.ok THEN RequestValidationError(<<q>>, db)
        ELSE IF Truthy(q.value) THEN Return(200, DictUpdate(FooBarItems, "q", q.value), db)
        ELSE Return(200, FooBarItems, db)
  IN answer(StrQuery(req, "q", Ellipsis, QueryMinLength, QueryMaxLength))

\* GET /itemlist/
read_item_list(req, params, db) ==
  IF "q" \in DOMAIN req.query
  THEN Return(200,
              PyDict([q |-> PyList([i \in 1..Len(req.query["q"]) |-> PyStr(req.query["q"][i])])]),
              db)
  ELSE Return(200, PyDict([q |-> PyList(<<PyText("default1"), PyText("default2")>>)]), db)

\* GET /itemtitle/
read_items_L228(req, params, db) ==
  LET answer(q) ==
        IF ~q.ok THEN RequestValidationError(<<q>>, db)
        ELSE IF Truthy(q.value) THEN Return(200, DictUpdate(FooBarItems, "q", q.value), db)
        ELSE Return(200, FooBarItems, db)
  IN answer(StrQuery(req, "q", None, QueryMinLength, -1))

\* item with the q and the description the two lookup handlers add.
WithDetails(item, q, short) ==
  LET item1 == IF Truthy(q) THEN DictUpdate(item, "q", q) ELSE item IN
  IF ~short.v THEN DictUpdate(item1, "description", ShortDescription) ELSE item1

\* GET /items/{item_id}
read_item_L246(req, params, db) ==
  LET answer(item_id, q, short) ==
        IF ~(item_id.ok /\ q.ok /\ short.ok) THEN RequestValidationError(<<item_id, q, short>>, db)
        ELSE IF ~PyIn(item_id.value, db) THEN HTTPException(NotFoundStatus, "Item not found", db)
        ELSE Return(200, WithDetails(PyDict([item_id |-> item_id.value]), q.value, short.value), db)
  IN answer(IntPath(params, "item_id"), StrQuery(req, "item-query", None, 0, -1),
            BoolQuery(req, "short"))

\* GET /users/{user_id}/items/{item_id}
read_user_item(req, params, db) ==
  LET answer(user_id, item_id, q, short) ==
        IF ~(user_id.ok /\ q.ok /\ short.ok) THEN RequestValidationError(<<user_id, q, short>>, db)
        ELSE Return(200,
                    WithDetails(PyDict([item_id |-> item_id, owner_id |-> user_id.value]),
                                q.value, short.value),
                    db)
  IN answer(IntPath(params, "user_id"), PyStr(params["item_id"]),
            StrQuery(req, "q", None, 0, -1), BoolQuery(req, "short"))

\* get_model with the lenet test dropped.
get_model_no_lenet(req, params, db) ==
  IF params["model_name"] \notin ModelName
  THEN RequestValidationError(<<Invalid(PyStr(params["model_name"]))>>, db)
  ELSE LET model_name == PyStr(params["model_name"]) IN
       IF model_name.v = ModelName_alexnet
       THEN Return(200, PyDict([model_name |-> model_name,
                                message |-> PyText("Deep Learning FTW!")]), db)
       ELSE Return(200, PyDict([model_name |-> model_name,
                                message |-> PyText("Have some residuals")]), db)

\* GET /models/{model_name}
get_model(req, params, db) ==
  IF params["model_name"] \notin ModelName
  THEN RequestValidationError(<<Invalid(PyStr(params["model_name"]))>>, db)
  ELSE LET model_name == PyStr(params["model_name"]) IN
       IF model_name.v = ModelName_alexnet
       THEN Return(200, PyDict([model_name |-> model_name,
                                message |-> PyText("Deep Learning FTW!")]), db)
       ELSE IF model_name.v = ModelName_lenet
       THEN Return(200, PyDict([model_name |-> model_name,
                                message |-> PyText("LeCNN all the images")]), db)
       ELSE Return(200, PyDict([model_name |-> model_name,
                                message |-> PyText("Have some residuals")]), db)

(***************************************************************************)
(* The router.  A path is the sequence of the texts between its slashes    *)
(* ("/items/" is <<"items", "">>); a template segment is a literal text or *)
(* a named parameter, which matches any non-empty text.  A request is its  *)
(* method, path, query, headers (by their lower-case names) and JSON body. *)
(***************************************************************************)
t_items == <<"i", "t", "e", "m", "s">>
t_items_return_type ==
  <<"i", "t", "e", "m", "s", "_", "r", "e", "t", "u", "r", "n", "_", "t", "y", "p", "e">>
t_itemlist == <<"i", "t", "e", "m", "l", "i", "s", "t">>
t_itemtitle == <<"i", "t", "e", "m", "t", "i", "t", "l", "e">>
t_users == <<"u", "s", "e", "r", "s">>
t_models == <<"m", "o", "d", "e", "l", "s">>
t_openapi_json == <<"o", "p", "e", "n", "a", "p", "i", ".", "j", "s", "o", "n">>
t_docs == <<"d", "o", "c", "s">>
t_oauth2_redirect ==
  <<"o", "a", "u", "t", "h", "2", "-", "r", "e", "d", "i", "r", "e", "c", "t">>
t_redoc == <<"r", "e", "d", "o", "c">>

Lit(s) == [lit |-> s]
Param(name) == [param |-> name]
IsParam(seg) == "param" \in DOMAIN seg

\* The routes FastAPI() sets up for the documentation, which answer GET and
\* with it HEAD.
DocsRoutes ==
  <<[methods |-> {"GET", "HEAD"}, path |-> <<Lit(t_openapi_json)>>, endpoint |-> "openapi"],
    [methods |-> {"GET", "HEAD"}, path |-> <<Lit(t_docs)>>, endpoint |-> "swagger_ui_html"],
    [methods |-> {"GET", "HEAD"}, path |-> <<Lit(t_docs), Lit(t_oauth2_redirect)>>,
     endpoint |-> "swagger_ui_redirect"],
    [methods |-> {"GET", "HEAD"}, path |-> <<Lit(t_redoc)>>, endpoint |-> "redoc_html"]>>

\* The routes of the decorators, in the order they register them.
ApiRoutes ==
  <<[methods |-> {"GET"}, path |-> <<Lit(t_items), Lit(<<>>)>>, endpoint |-> "read_items_L112"],
    [methods |-> {"POST"}, path |-> <<Lit(t_items), Lit(<<>>)>>, endpoint |-> "create_items"],
    [methods |-> {"POST"}, path |-> <<Lit(t_items), Lit(<<>>)>>, endpoint |-> "create_an_item"],
    [methods |-> {"POST"}, path |-> <<Lit(t_items_return_type), Lit(<<>>)>>,
     endpoint |-> "create_item"],
    [methods |-> {"GET"}, path |-> <<Lit(t_items_return_type), Lit(<<>>)>>,
     endpoint |-> "read_items_L158"],
    [methods |-> {"PUT"}, path |-> <<Lit(t_items), Param("id")>>,
     endpoint |-> "update_item_json"],
    [methods |-> {"PUT"}, path |-> <<Lit(t_items), Param("item_id")>>, endpoint |-> "update_item"],
    [methods |-> {"GET"}, path |-> <<Lit(<<>>)>>, endpoint |-> "root"],
    [methods |-> {"GET"}, path |-> <<Lit(t_items), Lit(<<>>)>>, endpoint |-> "read_item_L206"],
    [methods |-> {"GET"}, path |-> <<Lit(t_itemlist), Lit(<<>>)>>, endpoint |-> "read_item_list"],
    [methods |-> {"GET"}, path |-> <<Lit(t_itemtitle), Lit(<<>>)>>,
     endpoint |-> "read_items_L228"],
    [methods |-> {"GET"}, path |-> <<Lit(t_items), Param("item_id")>>,
     endpoint |-> "read_item_L246"],
    [methods |-> {"GET"},
     path |-> <<Lit(t_users), Param("user_id"), Lit(t_items), Param("item_id")>>,
     endpoint |-> "read_user_item"],
    [methods |-> {"GET"}, path |-> <<Lit(t_models), Param("model_name")>>,
     endpoint |-> "get_model"]>>

\* The routes of the app, in the order of their registration.
routes == DocsRoutes \o ApiRoutes

\* A literal segment matches its own text; a parameter is `[^/]+`, any
\* non-empty text.
SegMatches(seg, text) == IF IsParam(seg) THEN Len(text) > 0 ELSE seg.lit = text

\* The pattern ends with `$`, which matches at the end of the path and also
\* before a newline that ends it.
LastSegMatches(seg, text) ==
  \/ SegMatches(seg, text)
  \/ Len(text) > 0 /\ Last(text) = "\n" /\ SegMatches(seg, Front(text))

\* The template's pattern matches the whole path.
PathMatches(template, path) ==
  /\ Len(template) = Len(path)
  /\ \A i \in 1..(Len(template) - 1) : SegMatches(template[i], path[i])
  /\ LastSegMatches(template[Len(template)], path[Len(path)])

\* A route matches fully when its pattern and its method both match, and
\* partially when only the pattern does.
FullMatch(k, req) == PathMatches(routes[k].path, req.path) /\ req.method \in routes[k].methods
PartialMatch(k, req) ==
  PathMatches(routes[k].path, req.path) /\ req.method \notin routes[k].methods

\* The router walks the routes in order and stops at the first full match;
\* 0 when none matches fully.
RECURSIVE FirstFull(_, _)
FirstFull(k, req) ==
  IF k > Len(routes) THEN 0
  ELSE IF FullMatch(k, req) THEN k
  ELSE FirstFull(k + 1, req)

Route(req) == FirstFull(1, req)

\* The path parameters of route k for the path.
PathParams(k, path) ==
  LET named == {i \in 1..Len(routes[k].path) : IsParam(routes[k].path[i])} IN
  [name \in {routes[k].path[i].param : i \in named} |->
     path[CHOOSE i \in named : routes[k].path[i].param = name]]

\* The call of the endpoint function by its name.
Invoke(endpoint, req, params, db) ==
  CASE endpoint = "openapi" -> openapi(req, params, db)
    [] endpoint = "swagger_ui_html" -> swagger_ui_html(req, params, db)
    [] endpoint = "swagger_ui_redirect" -> swagger_ui_redirect(req, params, db)
    [] endpoint = "redoc_html" -> redoc_html(req, params, db)
    [] endpoint = "read_items_L112" -> read_items_L112(req, params, db)
    [] endpoint = "create_items" -> create_items(req, params, db)
    [] endpoint = "create_an_item" -> create_an_item(req, params, db)
    [] endpoint = "create_item" -> create_item(req, params, db)
    [] endpoint = "read_items_L158" -> read_items_L158(req, params, db)
    [] endpoint = "update_item_json" -> update_item_json(req, params, db)
    [] endpoint = "update_item" -> update_item(req, params, db)
    [] endpoint = "root" -> root(req, params, db)
    [] endpoint = "read_item_L206" -> read_item_L206(req, params, db)
    [] endpoint = "read_item_list" -> read_item_list(req, params, db)
    [] endpoint = "read_items_L228" -> read_items_L228(req, params, db)
    [] endpoint = "read_item_L246" -> read_item_L246(req, params, db)
    [] endpoint = "read_user_item" -> read_user_item(req, params, db)
    [] endpoint = "get_model" -> get_model(req, params, db)

\* The path with its trailing slashes dropped, or with one added when it
\* has none.
ToggleSlash(path) ==
  IF Last(path) # <<>> THEN Append(path, <<>>)
  ELSE IF \A i \in 1..Len(path) : path[i] = <<>> THEN <<>>
  ELSE SubSeq(path, 1,
              CHOOSE i \in 1..Len(path) :
                path[i] # <<>> /\ \A j \in (i + 1)..Len(path) : path[j] = <<>>)

\* What the router answers when no route matches fully: the 405 of the
\* first partial match; else a redirect when the path is not "/" and some
\* route matches it once its trailing slash is toggled; else 404.
Unrouted(req, db) ==
  IF \E k \in 1..Len(routes) : PartialMatch(k, req)
  THEN [resp |-> [status |-> 405, body |-> PyDict([detail |-> PyText("Method Not Allowed")]),
                  error |-> "MethodNotAllowed"], db |-> db]
  ELSE IF /\ req.path # <<<<>>>>
          /\ \E k \in 1..Len(routes) : PathMatches(routes[k].path, ToggleSlash(req.path))
  THEN [resp |-> [status |-> 307, body |-> None, error |-> "Redirect"], db |-> db]
  ELSE [resp |-> [status |-> 404, body |-> PyDict([detail |-> PyText("Not Found")]),
                  error |-> "NoRoute"], db |-> db]

(***************************************************************************)
(* The CORS middleware of lines 304-310, which sees every request before   *)
(* the router: it answers a preflight itself and hands every other request *)
(* on (the headers it adds to the answers are not modelled).               *)
(***************************************************************************)
origins ==
  {"http://localhost.tiangolo.com", "https://localhost.tiangolo.com", "http://localhost",
   "http://localhost:8080"}

\* allow_methods=["*"] stands for these methods.
ALL_METHODS == {"DELETE", "GET", "HEAD", "OPTIONS", "PATCH", "POST", "PUT"}

\* A preflight is an OPTIONS request that names its origin and the method it
\* asks for.
IsPreflight(req) ==
  /\ req.method = "OPTIONS"
  /\ {"origin", "access-control-request-method"} \subseteq DOMAIN req.headers

preflight_failures(headers) ==
  (IF headers["origin"] \in origins THEN <<>> ELSE <<"origin">>)
    \o (IF headers["access-control-request-method"] \in ALL_METHODS THEN <<>> ELSE <<"method">>)

\* The plain text answer to a preflight: 200 OK, or 400 with what is
\* disallowed.
preflight_response(req, db) ==
  [resp |->
     CASE preflight_failures(req.headers) = <<>> ->
            [status |-> 200, body |-> PyText("OK"), error |-> "none"]
       [] preflight_failures(req.headers) = <<"origin">> ->
            [status |-> 400, body |-> PyText("Disallowed CORS origin"), error |-> "DisallowedCORS"]
       [] preflight_failures(req.headers) = <<"method">> ->
            [status |-> 400, body |-> PyText("Disallowed CORS method"), error |-> "DisallowedCORS"]
       [] OTHER ->
            [status |-> 400, body |-> PyText("Disallowed CORS origin, method"),
             error |-> "DisallowedCORS"],
   db |-> db]

(***************************************************************************)
(* The requests a client sends.                                            *)
(***************************************************************************)
t_foo == <<"f", "o", "o">>
t_bar == <<"b", "a", "r">>
t_vgg == <<"v", "g", "g">>
t_d == <<"d">>
t_inf == <<"i", "n", "f">>

AText(n) == [i \in 1..n |-> "a"]

IdTexts == {IntText(n) : n \in (0 - 1)..MaxId}

\* Other ways of writing a number in a path.
OddIdTexts ==
  {<<" ", "1">>, <<"\t", "1">>, <<"1", "_", "0">>, <<"1", ".", "0">>, <<"1", ".">>,
   <<"1", ".", "5">>, <<"+", "0", "1">>, <<"", "1">>, <<"U+2003", "1">>, <<"+", "-", "1">>,
   <<"0", "-", "1">>, <<"0", "-", "0", "1">>,
   <<"1", "2", "3", "4", "5", "6", "7", "8", "9", "0", "1", "2", "3", "4", "5", "6", "7", "8", "9",
     "0">>}

NoQuery == [k \in {} |-> <<>>]

NoHeaders == [k \in {} |-> ""]

QTexts == {AText(n) : n \in 0..MaxQLen} \cup {AText(QueryMaxLength), AText(QueryMaxLength + 1)}

QQueries == {[q |-> <<s>>] : s \in QTexts}

ShortQueries ==
  {[short |-> <<s>>] : s \in {<<"1">>, <<"T", "r", "u", "e">>, <<"n", "o">>, t_foo}}

ItemQueries ==
  {NoQuery, ("item-query" :> <<t_foo>>), ("item-query" :> <<t_foo>>) @@ [short |-> <<<<"O", "n">>>>]}
    \cup ShortQueries

Get(path, query) ==
  [method |-> "GET", path |-> path, query |-> query, headers |-> NoHeaders, body |-> None]

HeadRequest(path) ==
  [method |-> "HEAD", path |-> path, query |-> NoQuery, headers |-> NoHeaders, body |-> None]

\* req as a browser sends it from the page of origin.
From(origin, req) == [req EXCEPT !.headers = [origin |-> origin] @@ req.headers]

\* Paths that end with a newline.
NewlinePaths ==
  {<<<<"\n">>>>, <<t_items, <<"\n">>>>, <<t_items, <<"1", "\n">>>>, <<t_items, <<"\n", "\n">>>>,
   <<t_items \o <<"\n">>>>, <<t_docs \o <<"\n">>>>, <<t_models, <<"l", "e", "n", "e", "t", "\n">>>>,
   <<t_itemlist, <<"\n">>, <<>>>>}

DocsPaths == {<<t_openapi_json>>, <<t_docs>>, <<t_docs, t_oauth2_redirect>>, <<t_redoc>>}

GetRequests ==
  {Get(<<<<>>>>, NoQuery), Get(<<t_items_return_type, <<>>>>, NoQuery), Get(<<t_foo>>, NoQuery),
   Get(<<t_items>>, NoQuery), Get(<<t_docs, <<>>>>, NoQuery)}
    \cup {Get(p, NoQuery) : p \in DocsPaths}
    \cup {HeadRequest(<<t_docs>>), HeadRequest(<<t_items, <<>>>>)}
    \cup {Get(<<t_items, <<>>>>, q) : q \in {NoQuery} \cup QQueries}
    \cup {Get(<<t_itemtitle, <<>>>>, q) : q \in {NoQuery} \cup QQueries}
    \cup {Get(<<t_itemlist, <<>>>>, q) : q \in {NoQuery, [q |-> <<t_foo>>], [q |-> <<t_foo, t_bar>>]}}
    \cup {Get(<<t_items, s>>, q) : s \in IdTexts \cup {t_foo}, q \in ItemQueries}
    \cup {Get(<<t_items, s>>, NoQuery) : s \in OddIdTexts}
    \cup {Get(<<t_users, u, t_items, i>>, q) :
            u \in {IntText(1), t_foo}, i \in {IntText(2), t_foo},
            q \in {NoQuery, [short |-> <<<<"1">>>>], [q |-> <<t_foo>>]}}
    \cup {Get(<<t_models, s>>, NoQuery) : s \in ModelName \cup {t_vgg}}
    \cup {Get(p, NoQuery) : p \in NewlinePaths}
    \cup {From(o, Get(<<t_items, <<>>>>, NoQuery)) : o \in {"http://localhost", "http://example.com"}}

Absent == [t |-> "absent"]

TaxChoices == {Absent, None} \cup {PyInt(n) : n \in 0..MaxTax}

\* The JSON object of an item with the price and the tax choice.
ItemBody(price, tax) ==
  LET base == [name |-> PyStr(t_foo), price |-> PyInt(price)] IN
  IF tax = Absent THEN PyDict(base) ELSE PyDict(base @@ [tax |-> tax])

\* Bodies whose price or tax is no finite number: the texts pydantic reads
\* as an infinity or NaN, and the Infinity literal json.loads accepts.
NonFiniteItemBodies ==
  {PyDict([name |-> PyStr(t_foo), price |-> PyStr(t_inf)]),
   PyDict([name |-> PyStr(t_foo), price |-> PyInt(1), tax |-> PyStr(<<"N", "a", "N">>)]),
   PyDict([name |-> PyStr(t_foo), price |-> Infinity(TRUE)])}

ValidItemBodies ==
  {ItemBody(p, t) : p \in 0..MaxPrice, t \in TaxChoices}
    \cup {PyDict([name |-> PyStr(t_foo), description |-> PyStr(t_d), price |-> PyInt(1),
                  tax |-> PyInt(1)]),
          PyDict([name |-> PyStr(t_foo), price |-> PyStr(<<"2", ".", "0">>)]),
          PyDict([name |-> PyStr(t_foo), price |-> PyStr(<<"\t", "2", "\n">>)]),
          PyDict([name |-> PyStr(t_foo), price |-> PyStr(<<" ", "2">>), tax |-> PyStr(<<"1", "_", "0">>)]),
          PyDict([name |-> PyStr(t_foo), price |-> PyStr(<<"1", "e", "2">>), tax |-> PyBool(TRUE)]),
          PyDict([name |-> PyStr(t_foo), price |-> PyInt(1), tax |-> PyFloat(<<5>>, 1)]),
          PyDict([name |-> PyStr(t_foo), price |-> PyFloat(<<1>>, 1), tax |-> PyFloat(<<2>>, 1)])}
    \cup NonFiniteItemBodies

InvalidItemBodies ==
  {PyDict([name |-> PyStr(t_foo)]),
   PyDict([price |-> PyInt(1)]),
   PyDict([price |-> NaN]),
   PyDict([name |-> PyStr(t_foo), price |-> PyStr(t_foo)]),
   PyDict([name |-> PyStr(t_foo), price |-> PyStr(<<" ", "1", "_", "0">>)]),
   PyDict([name |-> PyStr(t_foo), price |-> PyInt(1), tax |-> PyStr(t_foo)])}

ItemBodies == ValidItemBodies \cup InvalidItemBodies

UserBodies == {PyDict([username |-> PyStr(t_bar)]), PyDict([full_name |-> PyStr(t_bar)])}

\* The body of the four-field PUT: item, user and importance under their
\* keys; the last one also carries the fields of an Item at its top level.
EmbeddedBodies ==
  {PyDict([item |-> ItemBody(1, Absent), user |-> u, importance |-> PyInt(n)]) :
     u \in UserBodies, n \in 0..MaxImportance}
    \cup {PyDict([item |-> ItemBody(1, Absent), user |-> PyDict([username |-> PyStr(t_bar)]),
                  importance |-> PyStr(<<"1">>)]),
          PyDict([item |-> ItemBody(1, Absent), user |-> PyDict([username |-> PyStr(t_bar)]),
                  importance |-> PyFloat(<<1, 5>>, 1)]),
          PyDict([item |-> PyDict([name |-> PyStr(t_foo)]),
                  user |-> PyDict([username |-> PyStr(t_bar)]), importance |-> PyInt(1)]),
          PyDict([item |-> ItemBody(1, Absent), user |-> PyDict([username |-> PyStr(t_bar)]),
                  importance |-> PyInt(1), name |-> PyStr(t_foo), price |-> PyInt(1)])}

Post(path, body) ==
  [method |-> "POST", path |-> path, query |-> NoQuery, headers |-> NoHeaders, body |-> body]

PostRequests ==
  {Post(<<t_items, <<>>>>, b) : b \in ItemBodies}
    \cup {Post(<<t_items_return_type, <<>>>>, b) :
            b \in {ItemBody(1, Absent), ItemBody(2, PyInt(1)), PyDict([name |-> PyStr(t_foo)])}
                    \cup NonFiniteItemBodies}
    \cup {Post(<<t_models, t_vgg>>, ItemBody(1, Absent))}

Put(path, query, body) ==
  [method |-> "PUT", path |-> path, query |-> query, headers |-> NoHeaders, body |-> body]

PutRequests ==
  {Put(<<t_items, s>>, NoQuery, b) :
     s \in IdTexts \cup {t_foo},
     b \in {ItemBody(1, Absent), ItemBody(2, PyInt(1)), PyDict([name |-> PyStr(t_foo)])}}
    \cup {Put(<<t_items, s>>, NoQuery, b) :
            s \in OddIdTexts,
            b \in {ItemBody(1, Absent),
                   PyDict([item |-> ItemBody(1, Absent),
                           user |-> PyDict([username |-> PyStr(t_bar)]),
                           importance |-> PyInt(1)])}}
    \cup {Put(<<t_items, IntText(1)>>, NoQuery, b) : b \in NonFiniteItemBodies}
    \cup {Put(<<t_items, IntText(1)>>, q, b) :
            q \in {NoQuery, [q |-> <<t_foo>>]}, b \in EmbeddedBodies}

Options(path, headers) ==
  [method |-> "OPTIONS", path |-> path, query |-> NoQuery, headers |-> headers, body |-> None]

\* OPTIONS requests: preflights from allowed and other origins, for methods
\* that exist and one that does not, and requests that are no preflight.
OptionsRequests ==
  {Options(p, [origin |-> o] @@ ("access-control-request-method" :> m)) :
     p \in {<<t_items, <<>>>>, <<t_foo>>},
     o \in {"http://localhost", "http://localhost:8080", "http://example.com", ""},
     m \in {"GET", "PUT", "get", "FOO"}}
    \cup {Options(p, h) :
            p \in {<<t_items, <<>>>>, <<t_items>>, <<t_foo>>},
            h \in {NoHeaders, [origin |-> "http://localhost"],
                   ("access-control-request-method" :> "GET")}}

Requests == GetRequests \cup PostRequests \cup PutRequests \cup OptionsRequests

(***************************************************************************)
(* The state machine: one action per method and path template, in which    *)
(* the router picks the endpoint and the endpoint answers.  The requests   *)
(* of these actions are GET, HEAD, POST and PUT requests, which the        *)
(* middleware hands on to the router.                                      *)
(***************************************************************************)
Init ==
  /\ request =
       [method |-> "NONE", path |-> <<>>, query |-> NoQuery, headers |-> NoHeaders, body |-> None]
  /\ handler = "init"
  /\ response = [status |-> 0, body |-> None, error |-> "none"]
  /\ fake_items_db = fake_items_db_seed

\* The answer of route k to req over the store db.
Dispatch(k, req, db) ==
  IF k = 0 THEN Unrouted(req, db)
  ELSE Invoke(routes[k].endpoint, req, PathParams(k, req.path), db)

\* The answer of the app to req over the store db, and the store
\* afterwards: the middleware answers a preflight, the router the rest.
Respond(req, db) ==
  IF IsPreflight(req) THEN preflight_response(req, db) ELSE Dispatch(Route(req), req, db)

\* The name of the endpoint of route k, "none" for no route.
Endpoint(k) == IF k = 0 THEN "none" ELSE routes[k].endpoint

\* The app serves req: the router picked route k, and its endpoint answered
\* out.
Serve(req, k, out) ==
  /\ request' = req
  /\ handler' = Endpoint(k)
  /\ response' = out.resp
  /\ fake_items_db' = out.db

GetOpenapi ==
  \E req \in GetRequests : \E k \in {Route(req)} :
    /\ Endpoint(k) = "openapi"
    /\ Serve(req, k, openapi(req, PathParams(k, req.path), fake_items_db))

GetDocs ==
  \E req \in GetRequests : \E k \in {Route(req)} :
    /\ Endpoint(k) = "swagger_ui_html"
    /\ Serve(req, k, swagger_ui_html(req, PathParams(k, req.path), fake_items_db))

GetDocsRedirect ==
  \E req \in GetRequests : \E k \in {Route(req)} :
    /\ Endpoint(k) = "swagger_ui_redirect"
    /\ Serve(req, k, swagger_ui_redirect(req, PathParams(k, req.path), fake_items_db))

GetRedoc ==
  \E req \in GetRequests : \E k \in {Route(req)} :
    /\ Endpoint(k) = "redoc_html"
    /\ Serve(req, k, redoc_html(req, PathParams(k, req.path), fake_items_db))

GetRoot ==
  \E req \in GetRequests : \E k \in {Route(req)} :
    /\ Endpoint(k) = "root"
    /\ Serve(req, k, root(req, PathParams(k, req.path), fake_items_db))

\* GET /items/ has two endpoints, at lines 111 and 205.
GetItems ==
  \E req \in GetRequests : \E k \in {Route(req)} :
    /\ Endpoint(k) \in {"read_items_L112", "read_item_L206"}
    /\ Serve(req, k,
             IF Endpoint(k) = "read_items_L112"
             THEN read_items_L112(req, PathParams(k, req.path), fake_items_db)
             ELSE read_item_L206(req, PathParams(k, req.path), fake_items_db))

\* POST /items/ has two endpoints, at lines 115 and 130.
PostItems ==
  \E req \in PostRequests : \E k \in {Route(req)} :
    /\ Endpoint(k) \in {"create_items", "create_an_item"}
    /\ Serve(req, k,
             IF Endpoint(k) = "create_items"
             THEN create_items(req, PathParams(k, req.path), fake_items_db)
             ELSE create_an_item(req, PathParams(k, req.path), fake_items_db))

PostItemsReturnType ==
  \E req \in PostRequests : \E k \in {Route(req)} :
    /\ Endpoint(k) = "create_item"
    /\ Serve(req, k, create_item(req, PathParams(k, req.path), fake_items_db))

GetItemsReturnType ==
  \E req \in GetRequests : \E k \in {Route(req)} :
    /\ Endpoint(k) = "read_items_L158"
    /\ Serve(req, k, read_items_L158(req, PathParams(k, req.path), fake_items_db))

\* PUT /items/{id} has two endpoints, at lines 164 and 169.
PutItem ==
  \E req \in PutRequests : \E k \in {Route(req)} :
    /\ Endpoint(k) \in {"update_item_json", "update_item"}
    /\ Serve(req, k,
             IF Endpoint(k) = "update_item_json"
             THEN update_item_json(req, PathParams(k, req.path), fake_items_db)
             ELSE update_item(req, PathParams(k, req.path), fake_items_db))

GetItemList ==
  \E req \in GetRequests : \E k \in {Route(req)} :
    /\ Endpoint(k) = "read_item_list"
    /\ Serve(req, k, read_item_list(req, PathParams(k, req.path), fake_items_db))

GetItemTitle ==
  \E req \in GetRequests : \E k \in {Route(req)} :
    /\ Endpoint(k) = "read_items_L228"
    /\ Serve(req, k, read_items_L228(req, PathParams(k, req.path), fake_items_db))

GetItem ==
  \E req \in GetRequests : \E k \in {Route(req)} :
    /\ Endpoint(k) = "read_item_L246"
    /\ Serve(req, k, read_item_L246(req, PathParams(k, req.path), fake_items_db))

GetUserItem ==
  \E req \in GetRequests : \E k \in {Route(req)} :
    /\ Endpoint(k) = "read_user_item"
    /\ Serve(req, k, read_user_item(req, PathParams(k, req.path), fake_items_db))

GetModel ==
  \E req \in GetRequests : \E k \in {Route(req)} :
    /\ Endpoint(k) = "get_model"
    /\ Serve(req, k, get_model(req, PathParams(k, req.path), fake_items_db))

\* A preflight, which the middleware answers: no route is looked for and
\* no endpoint runs.
Preflight ==
  \E req \in OptionsRequests :
    IsPreflight(req) /\ Serve(req, 0, preflight_response(req, fake_items_db))

\* A request no route matches fully: 405 when only the method differs, a
\* redirect to the path with its slash toggled, or 404.
NotRouted ==
  \E req \in Requests : \E k \in {Route(req)} :
    ~IsPreflight(req) /\ k = 0 /\ Serve(req, k, Unrouted(req, fake_items_db))

Next ==
  \/ GetOpenapi \/ GetDocs \/ GetDocsRedirect \/ GetRedoc
  \/ GetRoot \/ GetItems \/ PostItems \/ PostItemsReturnType \/ GetItemsReturnType
  \/ PutItem \/ GetItemList \/ GetItemTitle \/ GetItem \/ GetUserItem \/ GetModel
  \/ Preflight \/ NotRouted

Spec == Init /\ [][Next]_vars

(***************************************************************************)
(* Properties.                                                             *)
(***************************************************************************)
ItemsPath == <<t_items, <<>>>>

Served == handler \notin {"init", "none"}

HasField(body, k) == body.t = "dict" /\ k \in DOMAIN body.v

\* The request is a PUT or GET on /items/<integer>.
OnItemId(method) ==
  /\ request.method = method
  /\ Len(request.path) = 2
  /\ request.path[1] = t_items
  /\ ParseInt(request.path[2]) # None

\* C1: a valid Item posted to /items/ with a numeric tax (0 included) is
\* answered with price_with_tax = price + tax, and one without a tax is
\* answered without price_with_tax.
C1_PriceWithTax ==
  (request.method = "POST" /\ request.path = ItemsPath /\ Item(request.body).ok) =>
    LET item == Item(request.body).value.v IN
    /\ response.error = "none"
    /\ IF item.tax # None
       THEN /\ HasField(response.body, "price_with_tax")
            /\ response.body.v["price_with_tax"] = FloatAdd(item.price, item.tax)
       ELSE ~HasField(response.body, "price_with_tax")

\* The item_id values of the records of the store.
StoreKeys(db) == {db[i].v["item_id"] : i \in {j \in 1..Len(db) : HasField(db[j], "item_id")}}

\* C2: GET /items/{item_id} answers 404 when item_id is no key of the store,
\* and otherwise 200 with the description present unless short is true.
C2_Lookup ==
  (OnItemId("GET") /\ BoolQuery(request, "short").ok) =>
    IF ParseInt(request.path[2]) \notin StoreKeys(fake_items_db)
    THEN response.status = 404
    ELSE /\ response.status = 200
         /\ HasField(response.body, "description") = ~BoolQuery(request, "short").value.v

\* The body holds a valid item, a valid user and an integer importance.
FourFieldBody ==
  /\ HasField(request.body, "item") /\ Item(request.body.v["item"]).ok
  /\ HasField(request.body, "user") /\ User(request.body.v["user"]).ok
  /\ HasField(request.body, "importance") /\ request.body.v["importance"].t = "int"

\* C3: PUT /items/{item_id} with a valid item, user and importance is a
\* validation error when importance = 0, and with importance = 1 succeeds
\* and echoes item_id, item, user and importance.
C3_Importance ==
  (OnItemId("PUT") /\ FourFieldBody) =>
    /\ request.body.v["importance"] = PyInt(0) => response.error = "ValidationError"
    /\ request.body.v["importance"] = PyInt(1) =>
         /\ response.error = "none"
         /\ HasField(response.body, "item_id") /\ HasField(response.body, "item")
         /\ HasField(response.body, "user") /\ HasField(response.body, "importance")
         /\ response.body.v["item_id"] = ParseInt(request.path[2])
         /\ response.body.v["importance"] = PyInt(1)

\* C4: GET /items/ with a q of 2 characters is a validation error, and with
\* a q of 3 characters succeeds.
C4_QueryLength ==
  (request.method = "GET" /\ request.path = ItemsPath /\ HasQuery(request, "q")) =>
    /\ Len(QueryValue(request, "q")) = 2 => response.error = "ValidationError"
    /\ Len(QueryValue(request, "q")) = 3 => response.error = "none"

\* C5: every request to a registered route ends in a result, a validation
\* error, or the not-found error of the lookup route, and in nothing else.
C5_Outcomes ==
  Served =>
    /\ response.error \in {"none", "ValidationError", "NotFoundError"}
    /\ response.error = "NotFoundError" => handler = "read_item_L246"

\* Two templates are the same when they agree on the literal texts and on
\* where the parameters are.
SameTemplate(a, b) ==
  /\ Len(a) = Len(b)
  /\ \A i \in 1..Len(a) :
       /\ IsParam(a[i]) = IsParam(b[i])
       /\ ~IsParam(a[i]) /\ ~IsParam(b[i]) => a[i].lit = b[i].lit

\* The routes registered for the method and template of route k.
Twins(k) ==
  {j \in 1..Len(routes) :
     routes[j].methods = routes[k].methods /\ SameTemplate(routes[j].path, routes[k].path)}

\* The last route registered for the method and template of route k.
LastTwin(k) == CHOOSE j \in Twins(k) : \A i \in Twins(k) : i <= j

\* C6: a request that fits the routes of one method and template is
\* dispatched to one handler, the last one registered for that method and
\* template.
C6_LastRegisteredWins ==
  \A k \in 1..Len(routes) :
    (/\ FullMatch(k, request)
     /\ \A j \in 1..Len(routes) : FullMatch(j, request) => j \in Twins(k)) =>
      handler = routes[LastTwin(k)].endpoint

\* The stores a write of an encoded item at one position would leave.
AltStores ==
  {fake_items_db_seed}
    \cup {[fake_items_db_seed EXCEPT ![i] = jsonable_encoder(Item(ItemBody(1, Absent)).value)] :
            i \in 1..Len(fake_items_db_seed)}
    \cup {SubSeq(fake_items_db_seed, 1, 2)}

\* C7: every handler other than update_item_json whose route fits the
\* request, whether the router picks it or an earlier registration hides
\* it, returns the store it was given, and answers over every store what it
\* answers over the seed.
C7_OnlyPutWrites ==
  \A k \in 1..Len(routes) :
    (routes[k].endpoint # "update_item_json" /\ FullMatch(k, request)) =>
      \A db \in AltStores \cup {fake_items_db} :
        /\ Invoke(routes[k].endpoint, request, PathParams(k, request.path), db).db = db
        /\ Invoke(routes[k].endpoint, request, PathParams(k, request.path), db).resp =
             Invoke(routes[k].endpoint, request, PathParams(k, request.path),
                    fake_items_db_seed).resp

\* The four-field PUT with importance 1, which update_item answers with 200.
C7_Witness ==
  /\ OnItemId("PUT") /\ FourFieldBody
  /\ request.body.v["importance"] = PyInt(1)
  /\ \E k \in 1..Len(routes) :
       /\ routes[k].endpoint = "update_item" /\ FullMatch(k, request)
       /\ update_item(request, PathParams(k, request.path), fake_items_db).resp.status = 200

t_alexnet == <<"a", "l", "e", "x", "n", "e", "t">>
t_lenet == <<"l", "e", "n", "e", "t">>
t_resnet == <<"r", "e", "s", "n", "e", "t">>

\* The message of a successful response, "" when there is none.
Message ==
  IF response.error = "none" /\ HasField(response.body, "message")
  THEN response.body.v["message"].v ELSE ""

\* C8: GET /models/{model_name} answers "Deep Learning FTW!" for alexnet,
\* "LeCNN all the images" for lenet and "Have some residuals" for resnet,
\* and a validation error for every other name.
C8_Models ==
  (request.method = "GET" /\ Len(request.path) = 2 /\ request.path[1] = t_models) =>
    LET name == request.path[2] IN
    /\ name = t_alexnet => Message = "Deep Learning FTW!"
    /\ name = t_lenet => Message = "LeCNN all the images"
    /\ name = t_resnet => Message = "Have some residuals"
    /\ name \notin {t_alexnet, t_lenet, t_resnet} => response.error = "ValidationError"

C8_Witness ==
  /\ handler = "get_model"
  /\ request.path[2] = t_lenet
  /\ Message = "LeCNN all the images"

\* C9: a step of update_item_json with a valid Item and a path id that names
\* a position leaves the encoded Item at that position of fake_items_db and
\* every other position as it was.
C9_PutWrites ==
  [][(handler' = "update_item_json" /\ Item(request'.body).ok) =>
       \A i \in 1..Len(fake_items_db) :
         ParseInt(request'.path[2]) = PyInt(i - 1) =>
           fake_items_db' =
             [fake_items_db EXCEPT ![i] = jsonable_encoder(Item(request'.body).value)]]_vars

\* C10: fake_items_db is always the three seed records, in their order.
C10_StoreIsSeed ==
  /\ Len(fake_items_db) = 3
  /\ \A i \in 1..3 :
       /\ DOMAIN fake_items_db[i].v = {"item_id", "item_name"}
       /\ fake_items_db[i].v["item_id"] = PyInt(i - 1)
       /\ fake_items_db[i].v["item_name"] = PyText(<<"Fish", "Bear", "Bunny">>[i])

C10_Witness ==
  /\ handler = "update_item_json"
  /\ Item(request.body).ok
  /\ request.path[2] = IntText(1)
  /\ response.status = 500

====
